---- MODULE Spec2Model ----
(***************************************************************************)
(* Model of glenmo/modbus-project:                                         *)
(*   src/src/utils.py          chunk_values                                *)
(*   src/src/modbus_client.py  write_registers, read_registers, main       *)
(*   src/src/modbus_server.py  build_single_slave_context,                 *)
(*                             start_demo_updater.worker, main             *)
(* Three specifications share the variables:                               *)
(*   SpecChunk   chunk_values applied to bounded inputs                    *)
(*   SpecClient  one run of the client's main against the data store       *)
(*   SpecServer  the server's store, its background updater thread and     *)
(*               the requests it serves, interleaved                       *)
(***************************************************************************)
EXTENDS Integers, Sequences, FiniteSets, TLC

VARIABLES
    pc,          \* position of the caller / of the client's main
    values,      \* argument `values` of chunk_values / write_registers
    chunk_size,  \* argument `chunk_size` of chunk_values
    out,         \* list returned by the chunk_values call
    address,     \* argument `address` (the base address)
    count,       \* argument `count` of read_registers
    args_write,  \* args.write was given
    args_read,   \* args.read was given
    chunks,      \* write_registers: the list enumerate() iterates over
    i,           \* write_registers: the index enumerate() yields next
    txlog,       \* requests the client has sent, in order
    error,       \* the exception that reached the caller
    data,        \* list returned by the last read
    hr_size,     \* capacity of the holding-register block
    hr,          \* holding registers, 0-based
    co,          \* coils
    di,          \* discrete inputs
    ir,          \* input registers
    demo,        \* not args.no_demo: the updater thread was started
    upd_pc,      \* worker: position inside one loop iteration
    current,     \* worker: local `current`
    upd_i,       \* worker: local `i`, the iterations completed
    dirty,       \* history: HR[0] was written by a request since the worker read it
    oplog        \* history: the requests the server has served, in order, each
                 \* with the number of updater iterations completed before it

vars == << pc, values, chunk_size, out, address, count, args_write, args_read,
           chunks, i, txlog, error, data, hr_size, hr, co, di, ir,
           demo, upd_pc, current, upd_i, dirty, oplog >>

clientVars  == << address, count, args_write, args_read, chunks, i, txlog, error >>
tableVars   == << co, di, ir >>
updaterVars == << demo, upd_pc, current, upd_i, dirty >>

----------------------------------------------------------------------------
(* Bounds of the model *)

MaxLen == 4        \* SpecChunk: longest input sequence
MaxChunk == 3      \* SpecChunk: largest chunk_size tried
MaxWriteLen == 300 \* SpecClient: longest value list written
MaxBase == 1       \* SpecClient: largest base address
MaxPattern == 0    \* SpecClient: value patterns 0..MaxPattern
MaxTicks == 2      \* SpecServer: iterations of the updater
MaxOps == 3        \* SpecServer: requests served

(* Program constants *)

RegModulus == 65536        \* 0xFFFF + 1
DefaultChunkSize == 120
DefaultHrSize == 100
BuilderHrSize == 1000
DefaultTableSize == 100

----------------------------------------------------------------------------
(* utils.py *)

\* int(v) & 0xFFFF: the low 16 bits, also of a negative int
Mask16(v) == v % RegModulus

\* the state of the loop: the locals `out` and `chunk`
ChunkStart == [out |-> << >>, chunk |-> << >>]

\* `>` for `>=` in the flush test
ChunkStepOver(st, v, size) ==
    LET c2 == Append(st.chunk, Mask16(v))
    IN  IF Len(c2) > size
        THEN [out |-> Append(st.out, c2), chunk |-> << >>]
        ELSE [out |-> st.out, chunk |-> c2]

\* one turn of `for v in values`: append the masked value, flush a full chunk
ChunkStep(st, v, size) ==
    LET c2 == Append(st.chunk, Mask16(v))
    IN  IF Len(c2) >= size
        THEN [out |-> Append(st.out, c2), chunk |-> << >>]
        ELSE [out |-> st.out, chunk |-> c2]

RECURSIVE ChunkLoop(_, _, _, _, _)
\* the turns for vals[lo..hi], in order.  The range is split in halves and
\* the state after the first half is evaluated (left = left) before the
\* second half starts, which keeps the evaluation shallow for long lists
ChunkLoop(st, vals, lo, hi, size) ==
    IF lo > hi THEN st
    ELSE IF lo = hi THEN ChunkStep(st, vals[lo], size)
    ELSE LET mid  == (lo + hi) \div 2
             left == ChunkLoop(st, vals, lo, mid, size)
         IN  IF left = left
             THEN ChunkLoop(left, vals, mid + 1, hi, size)
             ELSE left

\* the trailing `if chunk: out.append(chunk)` left out
ChunkFinishNoTail(st) == st.out

\* after the loop: `if chunk: out.append(chunk)`, `return out`
ChunkFinish(st) == IF st.chunk # << >> THEN Append(st.out, st.chunk) ELSE st.out

chunk_values(vals, size) ==
    ChunkFinish(ChunkLoop(ChunkStart, vals, 1, Len(vals), size))

----------------------------------------------------------------------------
(* Helpers over lists of chunks *)

RECURSIVE Concat(_)
Concat(ss) == IF ss = << >> THEN << >> ELSE Head(ss) \o Concat(Tail(ss))

RECURSIVE SumLen(_, _)
\* number of values in chunks 1..n of ss
SumLen(ss, n) == IF n = 0 THEN 0 ELSE Len(ss[n]) + SumLen(ss, n - 1)

----------------------------------------------------------------------------
(* The data store built by build_single_slave_context *)

NewBlock(size) == [a \in 0 .. size - 1 |-> 0]

\* ModbusSequentialDataBlock(0, ...) with zero_mode=True: the request's range
\* must lie inside the block
Validate(size, addr, n) == addr >= 0 /\ addr + n <= size

\* the block addressed as without zero_mode: every address shifted by one
SetValuesOneBased(block, addr, vals) ==
    [a \in DOMAIN block |->
        IF a >= addr + 1 /\ a < addr + 1 + Len(vals) THEN vals[a - addr] ELSE block[a]]

SetValues(block, addr, vals) ==
    [a \in DOMAIN block |->
        IF a >= addr /\ a < addr + Len(vals) THEN vals[a - addr + 1] ELSE block[a]]

GetValues(block, addr, n) == [k \in 1 .. n |-> block[addr + k - 1]]

NoError == [kind |-> "none", op |-> "none", addr |-> -1]

----------------------------------------------------------------------------
(* Parts of the state a specification does not use *)

IdleClient ==
    /\ address = 0 /\ count = 0
    /\ args_write = FALSE /\ args_read = FALSE
    /\ chunks = << >> /\ i = 0 /\ txlog = << >>
    /\ error = NoError

IdleUpdater ==
    /\ demo = FALSE /\ upd_pc = "off" /\ current = 0 /\ upd_i = 0
    /\ dirty = FALSE

IdleTables ==
    /\ co = NewBlock(0) /\ di = NewBlock(0) /\ ir = NewBlock(0)

----------------------------------------------------------------------------
(* SpecChunk: a caller applies chunk_values to one input *)

ChunkValueSet == {-1, 0, 7, RegModulus - 1, RegModulus}

ChunkInputs == UNION {[1 .. n -> ChunkValueSet] : n \in 0 .. MaxLen}

ChunkSizes == (0 .. MaxChunk) \cup {DefaultChunkSize}

InitChunk ==
    /\ pc = "chunk_call"
    /\ values \in ChunkInputs
    /\ chunk_size \in ChunkSizes
    /\ out = << >>
    /\ data = << >> /\ oplog = << >>
    /\ hr_size = 0 /\ hr = NewBlock(0)
    /\ IdleClient /\ IdleUpdater /\ IdleTables

ChunkCall ==
    /\ pc = "chunk_call"
    /\ out' = chunk_values(values, chunk_size)
    /\ pc' = "chunk_done"
    /\ UNCHANGED << values, chunk_size, data, oplog, hr_size, hr >>
    /\ UNCHANGED << clientVars, tableVars, updaterVars >>

NextChunk == ChunkCall

SpecChunk == InitChunk /\ [][NextChunk]_vars

\* the input with every element reduced to its low 16 bits
Masked(vals) == [k \in 1 .. Len(vals) |-> Mask16(vals[k])]

\* C2 (as stated): concatenating the chunks returned by chunk_values
\* reproduces the input sequence exactly, element for element.
C2_ConcatIsInput ==
    pc = "chunk_done" => Concat(out) = values

\* C2 (amended): concatenating the chunks returned by chunk_values gives the
\* input sequence in order and in full length with every element reduced to
\* its low 16 bits (v & 0xFFFF); for inputs in 0..65535 that is the input.
C2_ConcatIsMaskedInput ==
    pc = "chunk_done" =>
        /\ Concat(out) = Masked(values)
        /\ Len(Concat(out)) = Len(values)
        /\ (\A k \in 1 .. Len(values) : values[k] \in 0 .. RegModulus - 1)
              => Concat(out) = values

C2_Witness ==
    /\ pc = "chunk_done"
    /\ Len(out) >= 2
    /\ Len(out[Len(out)]) < chunk_size
    /\ \E k \in 1 .. Len(values) : values[k] \notin 0 .. RegModulus - 1
    /\ \E k \in 1 .. Len(values) : values[k] \in 1 .. RegModulus - 1

\* the shape of the result for input length L and maximum M:
\* n = ceil(L/M) chunks (n*M >= L > (n-1)*M, and n = 0 for L = 0), each of
\* 1..M values, all but the last of exactly M
ChunkShape(res, L, M) ==
    /\ Len(res) * M >= L
    /\ (Len(res) > 0 => (Len(res) - 1) * M < L)
    /\ (L = 0 => Len(res) = 0)
    /\ \A k \in 1 .. Len(res) : Len(res[k]) <= M /\ Len(res[k]) >= 1
    /\ \A k \in 1 .. Len(res) - 1 : Len(res[k]) = M

\* C3 (as stated): for every input length L and every maximum chunk size M,
\* chunk_values returns ceil(L/M) chunks, each of at most M values, all but
\* the last of exactly M, none empty.
C3_ShapeAnySize ==
    pc = "chunk_done" => ChunkShape(out, Len(values), chunk_size)

\* C3 (amended): the same for every maximum chunk size M >= 1.
C3_ShapePositiveSize ==
    (pc = "chunk_done" /\ chunk_size >= 1) =>
        ChunkShape(out, Len(values), chunk_size)

C3_Witness ==
    /\ pc = "chunk_done"
    /\ chunk_size >= 2
    /\ Len(out) >= 2
    /\ Len(out[Len(out)]) < chunk_size

----------------------------------------------------------------------------
(* The server's store as main leaves it before serving *)

\* context[0x00].setValues(3, 0, [42, 100, 200])
SeededHr(size) == SetValues(NewBlock(size), 0, << 42, 100, 200 >>)

\* context[0x00].setValues(1, 0, [1, 0, 1, 1])
SeededCo(size) == SetValues(NewBlock(size), 0, << 1, 0, 1, 1 >>)

InitStore ==
    /\ hr = SeededHr(hr_size)
    /\ co = SeededCo(DefaultTableSize)
    /\ di = NewBlock(DefaultTableSize)
    /\ ir = NewBlock(DefaultTableSize)

----------------------------------------------------------------------------
(* SpecClient: one run of modbus_client.main against a server started with  *)
(* --no-demo.  A request is answered from the store, or with an error       *)
(* response that leaves the store alone (an illegal address, or a failure   *)
(* of the device or the transport).                                         *)

\* the value lists tried: pattern p, length L.  The values rise by one from
\* 65301 + p, so that lists of more than 235 values hold values above 65535
ValuesOf(L, p) == [k \in 1 .. L |-> k + p + (RegModulus - 236)]

\* the exception each failing operation raises
RaisedKind(op) ==
    CASE op = "connect" -> "ConnectionException"
      [] op = "write"   -> "RuntimeError"
      [] op = "read"    -> "RuntimeError"
      [] op = "args"    -> "SystemExit"

InitClient ==
    /\ pc = "start"
    /\ args_write \in BOOLEAN
    /\ args_read \in BOOLEAN
    /\ values \in IF args_write
                  THEN {ValuesOf(L, p) : L \in 0 .. MaxWriteLen, p \in 0 .. MaxPattern}
                  ELSE {<< >>}
    /\ address \in 0 .. MaxBase
    /\ count \in IF args_write THEN {Len(values)} ELSE {1, 3}
    /\ hr_size \in {DefaultHrSize, BuilderHrSize}
    /\ InitStore
    /\ chunk_size = DefaultChunkSize
    /\ out = << >> /\ data = << >> /\ oplog = << >>
    /\ chunks = << >> /\ i = 0 /\ txlog = << >>
    /\ error = NoError
    /\ IdleUpdater

\* main: client.connect(), raise ConnectionException when it fails
Connect ==
    /\ pc = "start"
    /\ \/ /\ pc' = "connected"
          /\ UNCHANGED error
       \/ /\ error' = [kind |-> RaisedKind("connect"), op |-> "connect", addr |-> -1]
          /\ pc' = "raised"
    /\ UNCHANGED << values, chunk_size, out, address, count, args_write, args_read,
                    chunks, i, txlog, data, hr_size, hr, oplog >>
    /\ UNCHANGED << tableVars, updaterVars >>

\* main: the --write branch up to the call of write_registers, where
\* enumerate(chunk_values(values)) is evaluated once
WriteArgs ==
    /\ pc = "connected"
    /\ IF ~args_write
       THEN pc' = "after_write" /\ UNCHANGED << chunks, i, error >>
       ELSE IF values = << >>
       THEN /\ error' = [kind |-> RaisedKind("args"), op |-> "args", addr |-> -1]
            /\ pc' = "closing"
            /\ UNCHANGED << chunks, i >>
       ELSE /\ chunks' = chunk_values(values, chunk_size)
            /\ i' = 0
            /\ pc' = "write_registers"
            /\ UNCHANGED error
    /\ UNCHANGED << values, chunk_size, out, address, count, args_write, args_read,
                    txlog, data, hr_size, hr, oplog >>
    /\ UNCHANGED << tableVars, updaterVars >>

\* the address write_registers computes for the chunk enumerate() yields as i
ChunkAddress(base, idx, chunk) == base + idx * Len(chunk)

\* the loop going on to the next chunk after an error response
WriteChunkContinue ==
    /\ pc = "write_registers"
    /\ i < Len(chunks)
    /\ LET chunk == chunks[i + 1]
           addr  == ChunkAddress(address, i, chunk)
       IN  \E fault \in BOOLEAN :
             LET ok == ~fault /\ Validate(hr_size, addr, Len(chunk))
             IN  /\ txlog' = Append(txlog, [addr |-> addr, vals |-> chunk, ok |-> ok])
                 /\ hr' = IF ok THEN SetValues(hr, addr, chunk) ELSE hr
                 /\ i' = i + 1
                 /\ UNCHANGED << pc, error >>
    /\ UNCHANGED << values, chunk_size, out, address, count, args_write, args_read,
                    chunks, data, hr_size, oplog >>
    /\ UNCHANGED << tableVars, updaterVars >>

\* write_registers: one turn of the loop: send the chunk, raise on an error
\* response
WriteChunk ==
    /\ pc = "write_registers"
    /\ i < Len(chunks)
    /\ LET chunk == chunks[i + 1]
           addr  == ChunkAddress(address, i, chunk)
       IN  \E fault \in BOOLEAN :
             LET ok == ~fault /\ Validate(hr_size, addr, Len(chunk))
             IN  /\ txlog' = Append(txlog, [addr |-> addr, vals |-> chunk, ok |-> ok])
                 /\ IF ok
                    THEN /\ hr' = SetValues(hr, addr, chunk)
                         /\ i' = i + 1
                         /\ UNCHANGED << pc, error >>
                    ELSE /\ error' = [kind |-> RaisedKind("write"), op |-> "write",
                                      addr |-> addr]
                         /\ pc' = "closing"
                         /\ UNCHANGED << hr, i >>
    /\ UNCHANGED << values, chunk_size, out, address, count, args_write, args_read,
                    chunks, data, hr_size, oplog >>
    /\ UNCHANGED << tableVars, updaterVars >>

\* write_registers: the loop is exhausted and the function returns
WriteReturn ==
    /\ pc = "write_registers"
    /\ i = Len(chunks)
    /\ pc' = "after_write"
    /\ UNCHANGED << values, chunk_size, out, address, count, args_write, args_read,
                    chunks, i, txlog, error, data, hr_size, hr, oplog >>
    /\ UNCHANGED << tableVars, updaterVars >>

\* main: the --read branch, with read_registers
ReadArgs ==
    /\ pc = "after_write"
    /\ IF ~args_read
       THEN pc' = "closing" /\ UNCHANGED << data, error >>
       ELSE \E fault \in BOOLEAN :
              IF ~fault /\ Validate(hr_size, address, count)
              THEN /\ data' = GetValues(hr, address, count)
                   /\ pc' = "closing"
                   /\ UNCHANGED error
              ELSE /\ error' = [kind |-> RaisedKind("read"), op |-> "read",
                                addr |-> address]
                   /\ pc' = "closing"
                   /\ UNCHANGED data
    /\ UNCHANGED << values, chunk_size, out, address, count, args_write, args_read,
                    chunks, i, txlog, hr_size, hr, oplog >>
    /\ UNCHANGED << tableVars, updaterVars >>

\* main: finally: client.close(), then the exception, if any, goes on
Close ==
    /\ pc = "closing"
    /\ pc' = IF error = NoError THEN "exit" ELSE "raised"
    /\ UNCHANGED << values, chunk_size, out, address, count, args_write, args_read,
                    chunks, i, txlog, error, data, hr_size, hr, oplog >>
    /\ UNCHANGED << tableVars, updaterVars >>

NextClient ==
    \/ Connect
    \/ WriteArgs
    \/ WriteChunk
    \/ WriteReturn
    \/ ReadArgs
    \/ Close

SpecClient == InitClient /\ [][NextClient]_vars

----------------------------------------------------------------------------
(* Claims about the client *)

InRange(vals) == \A k \in 1 .. Len(vals) : vals[k] \in 0 .. RegModulus - 1

\* C1: the k-th write transaction of write_registers (k = 0, 1, 2, ...) goes
\* to address base + 120*k and carries the k-th chunk, for every length of
\* the value list; 300 values give 3 transactions of 120, 120 and 60 values
\* at base, base+120 and base+240.
C1_ChunkAddresses ==
    \A k \in 1 .. Len(txlog) :
        /\ txlog[k].addr = address + DefaultChunkSize * (k - 1)
        /\ txlog[k].addr = address + SumLen(chunks, k - 1)

\* C4: write_registers sends the chunks in chunk order, sends nothing after
\* the first error response and raises; the registers written by the chunks
\* before the failing one keep the values those chunks wrote.
C4_StopAtFirstFailure ==
    /\ Len(txlog) <= Len(chunks)
    /\ \A k \in 1 .. Len(txlog) : txlog[k].vals = chunks[k]
    /\ \A k \in 1 .. Len(txlog) - 1 : txlog[k].ok
    /\ (Len(txlog) > 0 /\ ~txlog[Len(txlog)].ok) =>
          /\ error.op = "write"
          /\ pc \in {"closing", "raised"}
          /\ Len(txlog) = i + 1
    /\ error.op = "write" =>
          /\ Len(txlog) = i + 1
          /\ ~txlog[i + 1].ok
          /\ data = << >>
          /\ \A k \in 1 .. i :
               \A m \in 1 .. Len(txlog[k].vals) :
                   hr[txlog[k].addr + m - 1] = txlog[k].vals[m]

C4_Witness ==
    /\ pc = "raised"
    /\ error.op = "write"
    /\ i >= 1
    /\ i + 1 < Len(chunks)
    /\ Len(txlog) = i + 1

\* C5: when the write fails at chunk k the error names the start address
\* of chunk k, base + (number of values in chunks 0..k-1), also when chunk k
\* is the last, shorter chunk.
C5_ErrorAddress ==
    error.op = "write" => error.addr = address + SumLen(chunks, i)

\* C6: after write_registers(base, values) completed for L >= 1 values in
\* 0..65535 with base+L inside the block, read_registers(base, L) returns
\* the written values in order.
C6_ReadBack ==
    ( /\ pc \in {"closing", "exit"}
      /\ args_write /\ args_read
      /\ error = NoError
      /\ Len(values) >= 1
      /\ InRange(values)
      /\ address + Len(values) <= hr_size )
    => data = values

\* C9: a failed connect, a failed read and a failed write reach the caller
\* as three distinct error kinds: the kind alone tells which one failed.
C9_DistinctKinds ==
    error.op \in {"connect", "read", "write"} =>
        \A op \in {"connect", "read", "write"} :
            RaisedKind(op) = error.kind => op = error.op

----------------------------------------------------------------------------
(* SpecServer: modbus_server.main.  The store is built and seeded, the      *)
(* updater thread is started unless --no-demo was given, and the server     *)
(* answers requests while the thread runs.                                  *)

\* the requests tried: register writes (one outside the block) and reads
WriteRequests ==
    { [addr |-> 1, vals |-> << 1234 >>],
      [addr |-> 0, vals |-> << RegModulus - 1 >>],
      [addr |-> 0, vals |-> << 7, 8 >>],
      [addr |-> DefaultHrSize, vals |-> << 1 >>] }

ReadRequests == { [addr |-> 0, n |-> 3] }

InitServer ==
    /\ pc = "serving"
    /\ hr_size = DefaultHrSize
    /\ InitStore
    /\ demo \in BOOLEAN
    /\ upd_pc = IF demo THEN "read" ELSE "off"
    /\ current = 0 /\ upd_i = 0 /\ dirty = FALSE
    /\ oplog = << >> /\ data = << >>
    /\ values = << >> /\ chunk_size = DefaultChunkSize /\ out = << >>
    /\ IdleClient

\* the mask `& 0xFFFF` left out
NewValNoMask(cur) == cur + 1

\* worker: new_val = (current + 1) & 0xFFFF
NewVal(cur) == Mask16(cur + 1)

\* worker: hr_values = getValues(3, 0, count=1); current = hr_values[0] if
\* hr_values else 0
UpdaterRead ==
    /\ upd_pc = "read"
    /\ upd_i < MaxTicks
    /\ LET hr_values == IF hr_size >= 1 THEN GetValues(hr, 0, 1) ELSE << >>
       IN  current' = IF hr_values # << >> THEN hr_values[1] ELSE 0
    /\ upd_pc' = "write"
    /\ dirty' = FALSE
    /\ UNCHANGED << pc, values, chunk_size, out, data, hr_size, hr, oplog,
                    demo, upd_i >>
    /\ UNCHANGED << clientVars, tableVars >>

\* worker: setValues(3, 0, [new_val]); i += 1; sleep; next iteration
UpdaterWrite ==
    /\ upd_pc = "write"
    /\ hr' = SetValues(hr, 0, << NewVal(current) >>)
    /\ upd_i' = upd_i + 1
    /\ upd_pc' = "read"
    /\ dirty' = FALSE
    /\ UNCHANGED << pc, values, chunk_size, out, data, hr_size, oplog,
                    demo, current >>
    /\ UNCHANGED << clientVars, tableVars >>

\* the server answers a write of holding registers
ServeWrite ==
    /\ pc = "serving"
    /\ Len(oplog) < MaxOps
    /\ \E req \in WriteRequests :
         LET ok == Validate(hr_size, req.addr, Len(req.vals))
         IN  /\ hr' = IF ok THEN SetValues(hr, req.addr, req.vals) ELSE hr
             /\ dirty' = (dirty \/ (ok /\ req.addr = 0))
             /\ oplog' = Append(oplog, [op |-> "write", addr |-> req.addr,
                                        vals |-> req.vals, ok |-> ok,
                                        ticks |-> upd_i])
    /\ UNCHANGED << pc, values, chunk_size, out, data, hr_size,
                    demo, upd_pc, current, upd_i >>
    /\ UNCHANGED << clientVars, tableVars >>

\* the server answers a read of holding registers
ServeRead ==
    /\ pc = "serving"
    /\ Len(oplog) < MaxOps
    /\ \E req \in ReadRequests :
         LET ok == Validate(hr_size, req.addr, req.n)
             res == IF ok THEN GetValues(hr, req.addr, req.n) ELSE << >>
         IN  /\ data' = res
             /\ oplog' = Append(oplog, [op |-> "read", addr |-> req.addr,
                                        vals |-> res, ok |-> ok,
                                        ticks |-> upd_i])
    /\ UNCHANGED << pc, values, chunk_size, out, hr_size, hr >>
    /\ UNCHANGED << clientVars, tableVars, updaterVars >>

NextServer ==
    \/ UpdaterRead
    \/ UpdaterWrite
    \/ ServeWrite
    \/ ServeRead

SpecServer == InitServer /\ [][NextServer]_vars

----------------------------------------------------------------------------
(* Claims about the server *)

\* the writes the server has applied, in order
AppliedWrites == SelectSeq(oplog, LAMBDA e : e.op = "write" /\ e.ok)

LastIsRead03 ==
    /\ oplog # << >>
    /\ oplog[Len(oplog)].op = "read"
    /\ oplog[Len(oplog)].addr = 0
    /\ Len(data) = 3

OnlyWrite1234 ==
    /\ Len(AppliedWrites) = 1
    /\ AppliedWrites[1].addr = 1
    /\ AppliedWrites[1].vals = << 1234 >>

\* C7 (as stated): on the server as main starts it (capacity 100, seed
\* hr[0..2] = [42,100,200]) a read of address 0, count 3 returns
\* [42,100,200], and after a write of [1234] to address 1 it returns
\* [42,1234,200].
C7_SeedScenario ==
    /\ (LastIsRead03 /\ AppliedWrites = << >>) => data = << 42, 100, 200 >>
    /\ (LastIsRead03 /\ OnlyWrite1234) => data = << 42, 1234, 200 >>

\* the updater iterations completed when the last request was served
TicksAtLast == oplog[Len(oplog)].ticks

\* C7 (amended): in both reads addresses 1 and 2 are as stated, and address
\* 0 reads 42 plus the number of iterations the updater had completed when
\* the read was served, modulo 65536: 42 when main was started with
\* --no-demo, no longer 42 once the updater, which main starts by default,
\* has run.
C7_SeedScenarioUpdater ==
    /\ (LastIsRead03 /\ AppliedWrites = << >>) =>
          /\ data[2] = 100 /\ data[3] = 200
          /\ data[1] = (42 + TicksAtLast) % RegModulus
          /\ ~demo => data = << 42, 100, 200 >>
    /\ (LastIsRead03 /\ OnlyWrite1234) =>
          /\ data[2] = 1234 /\ data[3] = 200
          /\ data[1] = (42 + TicksAtLast) % RegModulus
          /\ ~demo => data = << 42, 1234, 200 >>

C7_Witness ==
    /\ ~demo
    /\ Len(oplog) = 3
    /\ oplog[1].op = "read" /\ oplog[1].vals = << 42, 100, 200 >>
    /\ oplog[2].op = "write" /\ oplog[2].addr = 1 /\ oplog[2].vals = << 1234 >>
    /\ oplog[3].op = "read" /\ data = << 42, 1234, 200 >>

UpdaterWriteStep == upd_pc = "write" /\ upd_pc' = "read"

\* C8: each iteration of the updater changes HR[0] from the value v it
\* found to (v + 1) mod 65536 (65535 wraps to 0) and touches no other
\* register and no other table; HR[0] is in 0..65535 in every reachable
\* state.
C8_Increment ==
    /\ [](hr[0] \in 0 .. RegModulus - 1)
    /\ [][UpdaterWriteStep =>
            /\ hr'[0] = (current + 1) % RegModulus
            /\ (current = RegModulus - 1 => hr'[0] = 0)
            /\ (~dirty => hr'[0] = (hr[0] + 1) % RegModulus)
            /\ \A a \in DOMAIN hr : a # 0 => hr'[a] = hr[a]
            /\ DOMAIN hr' = DOMAIN hr
            /\ co' = co /\ di' = di /\ ir' = ir]_vars

C8_Witness ==
    /\ demo
    /\ upd_pc = "read"
    /\ upd_i >= 1
    /\ current = RegModulus - 1
    /\ hr[0] = 0

\* C10: no lost update on HR[0]: the updater never writes HR[0] with a value
\* computed from a read that preceded a completed request's write to HR[0].
C10_NoLostUpdate ==
    [][UpdaterWriteStep => ~dirty]_vars

====
